---- MODULE Spec2Model ----
(***************************************************************************)
(* Model of scripts/convert_speaker_pt_to_json.py (neutts-air-q4):         *)
(* _distribute_codes (the apportionment of a code total over transcript    *)
(* words) and _build_words_from_codes (the slicing of the code sequence).  *)
(*                                                                         *)
(* Python list indices are 0-based; sequences here are 1-based, so word    *)
(* index i of the source is index i+1 here.  `pointer` keeps its source    *)
(* value (it starts at 0 and is reduced modulo the list length).           *)
(*                                                                         *)
(* Python floats are IEEE-754 binary64.  A non-negative double is kept as  *)
(* a record [ip |-> integer part, bits |-> fraction bits], the fraction    *)
(* being a 0/1 sequence of FracWidth binary places; a share also carries   *)
(* its sign.  Every quotient is rounded to Mantissa significant bits,      *)
(* round-half-to-even, as the hardware does.                               *)
(***************************************************************************)
EXTENDS Integers, Sequences, FiniteSets, TLC

(***************************************************************************)
(* Bounds of the explored inputs.                                          *)
(***************************************************************************)
MaxTotal == 7
MaxLen == 3
MaxWeight == 4
MaxMixedLen == 2
MaxNegWeight == 1
MaxWords == 8
LongWord == 10
MaxTokens == 2
MaxCodes == 4

FRAME_RATE_HZ == 50

Mantissa == 53
FracWidth == Mantissa + 11

(***************************************************************************)
(* Builtins: sum, max, abs.                                                *)
(***************************************************************************)
RECURSIVE sum(_)
sum(s) == IF s = <<>> THEN 0 ELSE Head(s) + sum(Tail(s))

max(a, b) == IF a >= b THEN a ELSE b

abs(a) == IF a < 0 THEN -a ELSE a

(***************************************************************************)
(* Binary64 arithmetic.                                                    *)
(***************************************************************************)
ZeroBits == [j \in 1..FracWidth |-> 0]

\* floor(log2(n)) for n >= 1: the exponent of the leading bit.
RECURSIVE Log2(_)
Log2(n) == IF n <= 1 THEN 0 ELSE 1 + Log2(n \div 2)

\* 2^n modulo b, by repeated squaring.
RECURSIVE Pow2Mod(_, _)
Pow2Mod(n, b) ==
    IF n = 0 THEN 1 % b
    ELSE LET h == Pow2Mod(n \div 2, b)
         IN  (h * h * (IF n % 2 = 1 THEN 2 ELSE 1)) % b

\* The remainder long division of r by b (0 <= r < b) leaves after n binary
\* places: r * 2^n modulo b.
ExpandRem(r, b, n) == (r * Pow2Mod(n, b)) % b

\* The first n binary places of r / b: place j is the quotient digit of the
\* step that follows j - 1 places.
ExpandBits(r, b, n) == [j \in 1..n |-> (2 * ExpandRem(r, b, j - 1)) \div b]

\* Round ip + 0.bits (+ a non-zero tail when sticky) to the nearest double,
\* ties to even.  nf is the number of binary places a double of that
\* magnitude keeps.
RoundDouble(ip, bits, sticky) ==
    LET ones == {j \in 1..FracWidth : bits[j] = 1}
        lead == IF ones = {} THEN FracWidth
                ELSE (CHOOSE j \in ones : \A k \in ones : j <= k) - 1
        nf == IF ip > 0 THEN Mantissa - 1 - Log2(ip) ELSE lead + Mantissa
    IN  IF nf >= FracWidth THEN [ip |-> ip, bits |-> bits]
        ELSE
          LET guard == bits[nf + 1]
              rest == sticky \/ \E j \in (nf + 2)..FracWidth : bits[j] = 1
              last == IF nf = 0 THEN ip % 2 ELSE bits[nf]
              up == guard = 1 /\ (rest \/ last = 1)
              kept == [j \in 1..FracWidth |-> IF j <= nf THEN bits[j] ELSE 0]
              zs == {j \in 1..nf : bits[j] = 0}
              z == CHOOSE j \in zs : \A k \in zs : j >= k
          IN  IF ~up THEN [ip |-> ip, bits |-> kept]
              ELSE IF zs = {} THEN [ip |-> ip + 1, bits |-> ZeroBits]
              ELSE [ip |-> ip,
                    bits |-> [j \in 1..FracWidth |->
                                IF j < z THEN bits[j]
                                ELSE IF j = z THEN 1 ELSE 0]]

\* a / b as Python computes int / int (b > 0): the correctly rounded double.
TrueDiv(a, b) ==
    LET m == abs(a)
        d == RoundDouble(m \div b, ExpandBits(m % b, b, FracWidth),
                         ExpandRem(m % b, b, FracWidth) # 0)
    IN  [neg |-> a < 0, ip |-> d.ip, bits |-> d.bits]

\* math.floor(x) of a double, as an integer.
Floor(x) ==
    IF ~x.neg THEN x.ip
    ELSE IF x.bits = ZeroBits THEN -x.ip ELSE -(x.ip + 1)

\* x - math.floor(x) in double arithmetic.  For x >= 0 the difference is the
\* fraction of x and is exact; for x < 0 it is 1 - fraction, rounded.
FracPart(x) ==
    IF ~x.neg \/ x.bits = ZeroBits
    THEN [ip |-> 0, bits |-> IF x.neg THEN ZeroBits ELSE x.bits]
    ELSE LET os == {j \in 1..FracWidth : x.bits[j] = 1}
             l == CHOOSE j \in os : \A k \in os : j >= k
             comp == [j \in 1..FracWidth |->
                        IF j < l THEN 1 - x.bits[j]
                        ELSE IF j = l THEN 1 ELSE 0]
         IN  RoundDouble(0, comp, FALSE)

\* x < y for two non-negative doubles.
DoubleLess(x, y) ==
    \/ x.ip < y.ip
    \/ /\ x.ip = y.ip
       /\ x.bits # y.bits
       /\ LET ds == {j \in 1..FracWidth : x.bits[j] # y.bits[j]}
              d == CHOOSE j \in ds : \A k \in ds : j <= k
          IN  x.bits[d] < y.bits[d]

(***************************************************************************)
(* sorted(enumerate(fractional), key=item[1], reverse=rev): a stable sort; *)
(* with reverse=True equal keys still keep their original order.           *)
(***************************************************************************)
Precedes(frac, rev, i, j) ==
    \/ IF rev THEN DoubleLess(frac[j], frac[i]) ELSE DoubleLess(frac[i], frac[j])
    \/ /\ frac[i] = frac[j]
       /\ i < j

RECURSIVE SortedIndices(_, _, _)
SortedIndices(S, frac, rev) ==
    IF S = {} THEN <<>>
    ELSE LET first == CHOOSE i \in S : \A j \in S \ {i} : Precedes(frac, rev, i, j)
         IN  <<first>> \o SortedIndices(S \ {first}, frac, rev)

\* list.pop(k) with a 0-based k.
Pop(s, k) == [j \in 1..(Len(s) - 1) |-> IF j <= k THEN s[j] ELSE s[j + 1]]

\* s[lo:hi - lo]: the slice end taken as a length.
SliceToCount(s, lo, hi) ==
    LET a == IF lo > Len(s) THEN Len(s) ELSE lo
        b == IF hi - lo > Len(s) THEN Len(s) ELSE hi - lo
    IN  [j \in 1..(b - a) |-> s[a + j]]

\* s[lo:hi] for 0 <= lo <= hi; Python clamps both ends to len(s).
Slice(s, lo, hi) ==
    LET a == IF lo > Len(s) THEN Len(s) ELSE lo
        b == IF hi > Len(s) THEN Len(s) ELSE hi
    IN  [j \in 1..(b - a) |-> s[a + j]]

\* round(count / FRAME_RATE_HZ, 2), kept in hundredths of a second.
Duration(count) == (count * 100) \div FRAME_RATE_HZ

(***************************************************************************)
(* Inputs.                                                                 *)
(***************************************************************************)
SeqsUpTo(S, lo, hi) == UNION {[1..n -> S] : n \in lo..hi}

Totals == 0..MaxTotal

\* The lists of lo..hi weights that are a run of a followed by a run of b.
Blocks(a, b, lo, hi) ==
    UNION {{[i \in 1..n |-> IF i <= k THEN a ELSE b] : k \in 0..n} : n \in lo..hi}

\* Every list of up to MaxLen weights in 1..MaxWeight; every list of up to
\* MaxMixedLen weights that may also be zero or negative; and longer lists,
\* the weights of one-letter words and of LongWord-letter words, one kind
\* after the other.
WeightLists ==
    SeqsUpTo(1..MaxWeight, 0, MaxLen)
      \cup SeqsUpTo((-MaxNegWeight)..MaxWeight, 0, MaxMixedLen)
      \cup Blocks(1, LongWord, MaxLen + 1, MaxWords)
      \cup Blocks(LongWord, 1, MaxLen + 1, MaxWords)

Vocabulary == {"", "a", "to", "hello"}

TokenLists == SeqsUpTo(Vocabulary, 0, MaxTokens)

CodeLists == SeqsUpTo({0, 1}, 0, MaxCodes)

(***************************************************************************)
(* State.                                                                  *)
(***************************************************************************)
VARIABLES pc, caller, total_codes, weights, shares, counts, delta, idx_list,
          step, remaining, pointer, adjustment, codes, transcript_tokens,
          words, offset

vars == <<pc, caller, total_codes, weights, shares, counts, delta, idx_list,
          step, remaining, pointer, adjustment, codes, transcript_tokens,
          words, offset>>

dcLocals == <<shares, counts, delta, idx_list, step, remaining, pointer,
              adjustment>>
bwArgs == <<codes, transcript_tokens>>
bwLocals == <<words, offset>>

Init ==
    /\ pc = "idle"
    /\ caller = "none"
    /\ total_codes = 0
    /\ weights = <<>>
    /\ shares = <<>>
    /\ counts = <<>>
    /\ delta = 0
    /\ idx_list = <<>>
    /\ step = 0
    /\ remaining = 0
    /\ pointer = 0
    /\ adjustment = 0
    /\ codes = <<>>
    /\ transcript_tokens = <<>>
    /\ words = <<>>
    /\ offset = 0

\* A direct call _distribute_codes(t, w).
CallDistribute ==
    /\ pc = "idle"
    /\ \E t \in Totals, w \in WeightLists :
         /\ total_codes' = t
         /\ weights' = w
    /\ pc' = "dc_entry"
    /\ caller' = "direct"
    /\ UNCHANGED <<dcLocals, bwArgs, bwLocals>>

\* A call _build_words_from_codes(c, toks).
CallBuild ==
    /\ pc = "idle"
    /\ \E c \in CodeLists, toks \in TokenLists :
         /\ codes' = c
         /\ transcript_tokens' = toks
    /\ pc' = "bw_entry"
    /\ caller' = "build"
    /\ UNCHANGED <<total_codes, weights, dcLocals, bwLocals>>

\* Lines 170-171: the weights and the call of _distribute_codes.
BuildWeights ==
    /\ pc = "bw_entry"
    /\ weights' = [i \in 1..Len(transcript_tokens) |->
                     max(1, Len(transcript_tokens[i]))]
    /\ total_codes' = Len(codes)
    /\ pc' = "dc_entry"
    /\ UNCHANGED <<caller, dcLocals, bwArgs, bwLocals>>

\* Line 127.
Shares(total, ws) == [i \in 1..Len(ws) |-> TrueDiv(ws[i] * total, sum(ws))]

\* Line 128 without the floor of one.
InitialCountsNoFloor(sh) == [i \in 1..Len(sh) |-> Floor(sh[i])]

\* Line 128.
InitialCounts(sh) == [i \in 1..Len(sh) |-> max(1, Floor(sh[i]))]

\* Lines 119-131: argument checks, shares, initial counts, delta.
Allocate ==
    /\ pc = "dc_entry"
    /\ IF total_codes <= 0 \/ weights = <<>> \/ sum(weights) <= 0
       THEN /\ pc' = "dc_raised"
            /\ UNCHANGED <<shares, counts, delta>>
       ELSE \E sh \in {Shares(total_codes, weights)} :
            \E c \in {InitialCounts(sh)} :
              /\ shares' = sh
              /\ counts' = c
              /\ delta' = total_codes - sum(c)
              /\ pc' = IF total_codes - sum(c) # 0 THEN "dc_rank" ELSE "dc_finish"
    /\ UNCHANGED <<caller, total_codes, weights, idx_list, step, remaining,
                   pointer, adjustment, bwArgs, bwLocals>>

\* Line 134.
Fractional(sh) == [i \in 1..Len(sh) |-> FracPart(sh[i])]

\* Lines 135-141 with reverse=True whatever the sign of delta.
RankingDescending(fractional, d) ==
    SortedIndices(1..Len(fractional), fractional, TRUE)

\* Lines 135-141.
Ranking(fractional, d) ==
    SortedIndices(1..Len(fractional), fractional, d > 0)

\* Lines 133-145: the ranked index list and the loop variables.
Rank ==
    /\ pc = "dc_rank"
    /\ \E fractional \in {Fractional(shares)} :
         idx_list' = Ranking(fractional, delta)
    /\ step' = IF delta > 0 THEN 1 ELSE -1
    /\ remaining' = abs(delta)
    /\ pointer' = 0
    /\ pc' = "dc_loop"
    /\ UNCHANGED <<caller, total_codes, weights, shares, counts, delta,
                   adjustment, bwArgs, bwLocals>>

\* Line 147: the index the loop looks at.
Current(list, ptr) == list[(ptr % Len(list)) + 1]

\* Line 146 with the loop stopping one unit early.
LoopStopsEarly(rem, list) == rem > 1 /\ list # <<>>

\* Line 146: the loop condition.
LoopContinues(rem, list) == rem > 0 /\ list # <<>>

\* Line 146, condition false: the loop ends.
LoopExit ==
    /\ pc = "dc_loop"
    /\ ~LoopContinues(remaining, idx_list)
    /\ pc' = "dc_finish"
    /\ UNCHANGED <<caller, total_codes, weights, dcLocals, bwArgs, bwLocals>>

\* Line 150 without the removal.
PopNothing(list, ptr) == list

\* Line 150.
PopVisited(list, ptr) == Pop(list, ptr % Len(list))

\* Lines 146-151: the proposed count is not positive; the index is dropped.
LoopPop ==
    /\ pc = "dc_loop"
    /\ LoopContinues(remaining, idx_list)
    /\ counts[Current(idx_list, pointer)] + step <= 0
    /\ idx_list' = PopVisited(idx_list, pointer)
    /\ UNCHANGED <<pc, caller, total_codes, weights, shares, counts, delta,
                   step, remaining, pointer, adjustment, bwArgs, bwLocals>>

\* Lines 146-154: one unit is moved on the visited index.
LoopAdjust ==
    /\ pc = "dc_loop"
    /\ LoopContinues(remaining, idx_list)
    /\ counts[Current(idx_list, pointer)] + step > 0
    /\ counts' = [counts EXCEPT ![Current(idx_list, pointer)] = @ + step]
    /\ remaining' = remaining - 1
    /\ pointer' = pointer + 1
    /\ UNCHANGED <<pc, caller, total_codes, weights, shares, delta, idx_list,
                   step, adjustment, bwArgs, bwLocals>>

\* Lines 156-158: the residue goes to the last count.
Adjusted(cs, total) ==
    IF total - sum(cs) # 0
    THEN [cs EXCEPT ![Len(cs)] = @ + (total - sum(cs))]
    ELSE cs

\* Lines 160-164 without the positivity check.
ValidSumOnly(cs, total) == ~(sum(cs) # total)

\* Lines 160-164: the checks before the return.
Valid(cs, total) ==
    /\ ~(\E i \in 1..Len(cs) : cs[i] <= 0)
    /\ ~(sum(cs) # total)

\* Lines 156-166 reduced to the return: no correction, no validation.
FinishUnchecked ==
    /\ pc = "dc_finish"
    /\ adjustment' = 0
    /\ pc' = "dc_returned"
    /\ UNCHANGED <<caller, total_codes, weights, shares, counts, delta,
                   idx_list, step, remaining, pointer, bwArgs, bwLocals>>

\* Lines 156-166: final correction, validation, return or raise.
Finish ==
    /\ pc = "dc_finish"
    /\ adjustment' = total_codes - sum(counts)
    /\ counts' = Adjusted(counts, total_codes)
    /\ pc' = IF Valid(Adjusted(counts, total_codes), total_codes)
             THEN "dc_returned" ELSE "dc_raised"
    /\ UNCHANGED <<caller, total_codes, weights, shares, delta, idx_list,
                   step, remaining, pointer, bwArgs, bwLocals>>

\* Lines 173-174: back in _build_words_from_codes.
BuildStart ==
    /\ pc = "dc_returned"
    /\ caller = "build"
    /\ words' = <<>>
    /\ offset' = 0
    /\ pc' = "bw_loop"
    /\ UNCHANGED <<caller, total_codes, weights, dcLocals, bwArgs>>

WordRecord(token, count, off) ==
    [word |-> token,
     duration |-> IF Duration(count) <= 0 THEN Duration(1) ELSE Duration(count),
     codes |-> Slice(codes, off, off + count)]

\* Lines 175-187: one iteration over zip(transcript_tokens, counts).
BuildWord ==
    /\ pc = "bw_loop"
    /\ Len(words) < Len(transcript_tokens)
    /\ Len(words) < Len(counts)
    /\ LET k == Len(words) + 1
       IN  /\ words' = Append(words, WordRecord(transcript_tokens[k], counts[k], offset))
           /\ offset' = offset + counts[k]
    /\ UNCHANGED <<pc, caller, total_codes, weights, dcLocals, bwArgs>>

\* Line 188.
BuildReturn ==
    /\ pc = "bw_loop"
    /\ ~(Len(words) < Len(transcript_tokens) /\ Len(words) < Len(counts))
    /\ pc' = "bw_returned"
    /\ UNCHANGED <<caller, total_codes, weights, dcLocals, bwArgs, bwLocals>>

\* Lines 146-166: the loop and what follows it.
Redistribute ==
    \/ LoopExit
    \/ LoopPop
    \/ LoopAdjust
    \/ Finish

\* The steps of a call under way.
Run ==
    \/ BuildWeights
    \/ Allocate
    \/ Rank
    \/ Redistribute
    \/ BuildStart
    \/ BuildWord
    \/ BuildReturn

Next ==
    \/ CallDistribute
    \/ CallBuild
    \/ Run

Spec == Init /\ [][Next]_vars

\* Once the loop is entered the interpreter keeps executing it and the
\* statements after it.
FairSpec == Spec /\ WF_vars(Redistribute)

(***************************************************************************)
(* Properties.                                                             *)
(***************************************************************************)
\* The arguments the specification calls valid: total >= 1, a non-empty
\* weight list, every weight >= 1.
ValidInput ==
    /\ total_codes >= 1
    /\ weights # <<>>
    /\ \A i \in 1..Len(weights) : weights[i] >= 1

\* _distribute_codes has returned `counts`.
Returned == pc \in {"dc_returned", "bw_loop", "bw_returned"}

\* _distribute_codes has raised.
Raised == pc = "dc_raised"

\* The state right after the ranking, before the first loop iteration.
JustRanked == pc = "dc_loop" /\ pointer = 0 /\ Len(idx_list) = Len(weights)

\* The exact fractional remainder of word i's ideal share, in units of
\* 1 / sum(weights) (weights >= 1).
ExactRemainder(i) == (weights[i] * total_codes) % sum(weights)

\* Word i comes before word j when ranked by exact remainder descending,
\* ties by ascending index.
ExactlyBefore(i, j) ==
    \/ ExactRemainder(i) > ExactRemainder(j)
    \/ ExactRemainder(i) = ExactRemainder(j) /\ i < j

ExactBase ==
    [i \in 1..Len(weights) |-> max(1, (weights[i] * total_codes) \div sum(weights))]

LargestRemainderResult ==
    LET d == total_codes - sum(ExactBase)
    IN  [i \in 1..Len(weights) |->
           IF Cardinality({j \in 1..Len(weights) : ExactlyBefore(j, i)}) < d
           THEN ExactBase[i] + 1
           ELSE ExactBase[i]]

RECURSIVE Concat(_)
Concat(ws) == IF ws = <<>> THEN <<>> ELSE Head(ws).codes \o Concat(Tail(ws))

\* C1 (exactness): for total >= 1 and non-empty weights all >= 1, a returned
\* list has one entry per weight and its entries sum to total.
Exactness ==
    (Returned /\ ValidInput) =>
        /\ Len(counts) = Len(weights)
        /\ sum(counts) = total_codes

ExactnessWitness ==
    /\ pc = "dc_returned"
    /\ ValidInput
    /\ delta < 0
    /\ Len(idx_list) < Len(weights)
    /\ Len(weights) >= 3

\* C2 (positivity): whatever the arguments, a returned list has every entry
\* >= 1.
Positivity == Returned => \A i \in 1..Len(counts) : counts[i] >= 1

PositivityWitness ==
    /\ pc = "dc_returned"
    /\ \E i \in 1..Len(weights) : weights[i] <= 0
    /\ delta # 0
    /\ pointer > 0

\* C3 (infeasibility): for valid arguments with more words than codes the
\* function returns no list; it can only end by raising.
Infeasibility ==
    (ValidInput /\ Len(weights) > total_codes) => ~Returned

InfeasibilityWitness ==
    /\ Raised
    /\ ValidInput
    /\ total_codes = 3
    /\ Len(weights) = 5
    /\ \A i \in 1..5 : weights[i] = weights[1]
    /\ adjustment # 0

\* C4 (partition): when _build_words_from_codes returns there is one record
\* per token, in token order, each record's slice has the apportioned
\* length, and the slices concatenated in order are the code sequence.
Partition ==
    pc = "bw_returned" =>
        /\ Len(words) = Len(transcript_tokens)
        /\ \A k \in 1..Len(words) :
             /\ words[k].word = transcript_tokens[k]
             /\ Len(words[k].codes) = counts[k]
        /\ Concat(words) = codes

PartitionWitness ==
    /\ pc = "bw_returned"
    /\ Len(words) = 2
    /\ codes = <<0, 1, 1, 0>>
    /\ counts = <<1, 3>>

\* C5 (largest remainder, stable ties): for valid arguments whose initial
\* allocation does not exceed total, the returned list is the initial
\* allocation plus one unit for each of the first delta words ranked by exact
\* fractional remainder descending, ties by ascending index.
LargestRemainder ==
    (pc = "dc_returned" /\ ValidInput /\ total_codes - sum(ExactBase) >= 0) =>
        counts = LargestRemainderResult

\* C6 (termination): once entered, the loop is always left, and left only
\* with remaining = 0 or with an empty index list; the call then ends by
\* returning or raising.
Termination ==
    /\ (pc = "dc_loop") ~> (pc = "dc_finish")
    /\ (pc = "dc_finish") ~> (pc \in {"dc_returned", "dc_raised"})
    /\ [](pc = "dc_finish" => (remaining = 0 \/ idx_list = <<>>))

TerminationWitness ==
    /\ pc = "dc_finish"
    /\ idx_list = <<>>
    /\ remaining > 0
    /\ pointer > 0

\* C7 as stated (removal in descending order): when delta < 0 the ranked
\* list is in descending order of exact fractional remainder, ties by
\* ascending index.
RemovalDescending ==
    (JustRanked /\ ValidInput /\ delta < 0) =>
        \A a, b \in 1..Len(idx_list) :
            a < b => ExactlyBefore(idx_list[a], idx_list[b])

\* C7 amended (removal in ascending order): when delta < 0 the ranked list
\* holds every word index once, in ascending order of the remainder
\* share - floor(share) as computed in double precision, equal computed
\* remainders in ascending index order.
RemovalAscending ==
    (JustRanked /\ delta < 0) =>
        /\ {idx_list[a] : a \in 1..Len(idx_list)} = 1..Len(weights)
        /\ \A a, b \in 1..Len(idx_list) :
             a < b =>
               LET x == FracPart(shares[idx_list[a]])
                   y == FracPart(shares[idx_list[b]])
               IN  DoubleLess(x, y) \/ (x = y /\ idx_list[a] < idx_list[b])

RemovalAscendingWitness ==
    /\ JustRanked
    /\ ValidInput
    /\ delta < 0
    /\ Len(idx_list) >= 3
    /\ DoubleLess(FracPart(shares[idx_list[1]]), FracPart(shares[idx_list[2]]))
    /\ idx_list[1] > idx_list[2]

\* C8 (cyclic walk): after an index is adjusted or removed, the next index
\* looked at is the one that followed it in the ranked list, wrapping from
\* the last remaining index to the first.
CyclicWalk ==
    [][(/\ pc = "dc_loop"
        /\ pc' = "dc_loop"
        /\ Len(idx_list) > 1
        /\ LoopContinues(remaining', idx_list'))
       => Current(idx_list', pointer') = Current(idx_list, pointer + 1)]_vars

\* C9 (feasibility): valid arguments with no more words than codes never
\* make the function raise.
Feasibility ==
    (ValidInput /\ Len(weights) <= total_codes) => ~Raised

FeasibilityWitness ==
    /\ pc = "dc_returned"
    /\ ValidInput
    /\ Len(weights) = total_codes
    /\ delta < 0
    /\ \E i \in 1..Len(weights) : weights[i] > 1

\* C10 (residue): for valid arguments, a returned list was not touched by
\* the final correction (the residue was 0); a run whose residue was not 0
\* ended by raising, with a non-positive count.
ResidueOnlyOnFailure ==
    /\ (Returned /\ ValidInput) => adjustment = 0
    /\ (ValidInput /\ adjustment # 0) =>
          (Raised /\ \E i \in 1..Len(counts) : counts[i] <= 0)

ResidueWitness ==
    /\ pc = "dc_returned"
    /\ ValidInput
    /\ delta > 1
    /\ pointer = delta
    /\ adjustment = 0

====
